---- MODULE Spec2Model ----
(***************************************************************************)
(* The query-expression printer of faunadb-js, src/src/Expr.js:            *)
(* Expr.toString = exprToString.  The printer is a recursive function that *)
(* reads and writes three module-level variables (keyPath, compact,        *)
(* printDepth).  Strings are TLA+ strings, built with \o exactly where the *)
(* code builds them with +.                                                *)
(***************************************************************************)
EXTENDS Integers, Sequences, FiniteSets, TLC

VARIABLES
  keyPath,     \* Expr.js:50  var keyPath = []
  compact,     \* Expr.js:51  var compact = false
  printDepth,  \* Expr.js:52  var printDepth = 0
  expr,        \* first argument of the Expr.toString call last made
  options,     \* second argument of that call
  status,      \* "idle" | "returned" | "threw": how that call ended
  out,         \* the string it returned
  was,         \* keyPath/compact/printDepth as they were when it was entered
  calls,       \* the map invocations it made, in order: [str, keyPath, ret]
  nodes,       \* the composite nodes it rendered: [kind, node, pre, during,
               \* post, text, depth], compact before, inside and after each
               \* and printDepth around it
  again,       \* how the preceding call with the same arguments ended
  nested,      \* the Expr.toString calls its hook made while it was in
               \* flight: [pre, out, post], the shared state before and after
  n            \* number of Expr.toString calls made so far

vars == <<keyPath, compact, printDepth, expr, options, status, out, was,
          calls, nodes, again, nested, n>>

(***************************************************************************)
(* Bounds of the model.                                                    *)
(***************************************************************************)
MaxDepth == 2   \* nesting depth of the expression trees
MaxLen == 2     \* children of an array or of an object literal
MaxCalls == 2   \* Expr.toString calls in one run

(***************************************************************************)
(* JavaScript values.  A plain object keeps its keys in insertion order.   *)
(***************************************************************************)
Num(v) == [k |-> "number", num |-> v]
Str(v) == [k |-> "string", str |-> v]
Bool(v) == [k |-> "boolean", bool |-> v]
Null == [k |-> "null"]
Undefined == [k |-> "undefined"]
Arr(items) == [k |-> "array", items |-> items]
Obj(keys, vals) == [k |-> "object", keys |-> keys, vals |-> vals]

\* new Expr(obj): this.raw = obj
Expr(obj) == [k |-> "Expr", raw |-> obj]

\* An Expr instance that has a `value` property and its own toString().
Value(text) == [k |-> "Value", text |-> text]

\* expr instanceof Expr
instanceofExpr(e) == e.k \in {"Expr", "Value"}

\* obj[key] of a plain object
Get(obj, key) ==
  obj.vals[CHOOSE i \in 1..Len(obj.keys) : obj.keys[i] = key]

\* key in obj
In(key, obj) == \E i \in 1..Len(obj.keys) : obj.keys[i] = key

(***************************************************************************)
(* String primitives.                                                      *)
(***************************************************************************)
charAt(s, i) == IF i + 1 <= Len(s) THEN SubSeq(s, i + 1, i + 1) ELSE ""

slice(s, from) == SubSeq(s, from + 1, Len(s))

Lower == "abcdefghijklmnopqrstuvwxyz"
Upper == "ABCDEFGHIJKLMNOPQRSTUVWXYZ"

toUpperCase(c) ==
  IF \E i \in 1..Len(Lower) : SubSeq(Lower, i, i) = c
  THEN LET i == CHOOSE i \in 1..Len(Lower) : SubSeq(Lower, i, i) = c
       IN SubSeq(Upper, i, i)
  ELSE c

\* String(n) of a natural number
RECURSIVE NumberToString(_)
NumberToString(v) ==
  IF v < 10 THEN SubSeq("0123456789", v + 1, v + 1)
  ELSE NumberToString(v \div 10) \o NumberToString(v % 10)

\* JSON.stringify(s) of a string: quoted, with ", \ and line feed escaped
RECURSIVE JsonEscape(_)
JsonEscape(s) ==
  IF s = "" THEN ""
  ELSE LET c == Head(s)
       IN (IF c = "\"" THEN "\\\""
           ELSE IF c = "\\" THEN "\\\\"
           ELSE IF c = "\n" THEN "\\n"
           ELSE c) \o JsonEscape(Tail(s))

JSONstringify(s) == "\"" \o JsonEscape(s) \o "\""

\* s.split('_'): the segments between underscores, empty ones included
RECURSIVE split(_, _)
split(s, cur) ==
  IF s = "" THEN <<cur>>
  ELSE IF Head(s) = "_" THEN <<cur>> \o split(Tail(s), "")
  ELSE split(Tail(s), cur \o Head(s))

RECURSIVE join(_)
join(segs) == IF segs = <<>> THEN "" ELSE Head(segs) \o join(Tail(segs))

(***************************************************************************)
(* Name resolution: specialCases[keys[0]] || keys[0].split('_')...         *)
(* specialCases is an object literal, so a lookup also finds the members   *)
(* it inherits from Object.prototype; such a member is a function, which   *)
(* is truthy and concatenates as its source text.                          *)
(***************************************************************************)
ObjectPrototype ==
  [constructor |-> "function Object() { [native code] }",
   toString |-> "function toString() { [native code] }",
   valueOf |-> "function valueOf() { [native code] }"]

specialCases ==
  [is_nonempty |-> "IsNonEmpty",
   lt |-> "LT",
   lte |-> "LTE",
   gt |-> "GT",
   gte |-> "GTE"]

\* str.charAt(0).toUpperCase() + str.slice(1)
capitalize(str) == toUpperCase(charAt(str, 0)) \o slice(str, 1)

RECURSIVE capitalizeAll(_)
capitalizeAll(segs) ==
  IF segs = <<>> THEN <<>>
  ELSE <<capitalize(Head(segs))>> \o capitalizeAll(Tail(segs))

\* Expr.js:175-182, for keys[0] a string
fn(key) ==
  IF key \in DOMAIN specialCases THEN specialCases[key]
  ELSE IF key \in DOMAIN ObjectPrototype THEN ObjectPrototype[key]
  ELSE join(capitalizeAll(split(key, "")))

\* Expr.js:207
shouldReverseArgs(name) == name \in {"Filter", "Map", "Foreach"}

(***************************************************************************)
(* The printer's state while a call runs: the three module-level variables *)
(* and the two logs.  A step of the printer returns [out, m, err]: the     *)
(* string, the state it leaves, and whether it threw (then out is unused   *)
(* and m is the state at the throw: the code has no try/finally).          *)
(***************************************************************************)
Ret(str, m) == [out |-> str, m |-> m, err |-> FALSE]
Throw(m) == [out |-> "", m |-> m, err |-> TRUE]

\* The marker glyph of Expr.js:66 (U+30FB there).
Glyph == "*"

RECURSIVE Marker(_, _)
Marker(i, len) ==
  IF i >= len THEN ""
  ELSE (IF i % 2 = 1 THEN " " ELSE Glyph) \o Marker(i + 1, len)

\* indent without the prefix
indentFlat(input, m) == input

\* indent(input) for a string input, Expr.js:61-68
indent(input, m) ==
  IF m.compact THEN input ELSE Marker(0, 2 * m.printDepth) \o input

\* leave without the decrement
leaveSkipped(m) == m

\* indent(input) for a function input, Expr.js:55-60: enter and leave
enter(m) == [m EXCEPT !.printDepth = @ + 1]
leave(m) == [m EXCEPT !.printDepth = @ - 1]

\* Expr.js:71-73
eol(input, m) == input \o (IF m.compact THEN "" ELSE "\n")

\* isCompact as a test for leaf scalars
isCompactLeaf(e) == e.k \notin {"array", "object", "Expr"}

\* Expr.js:75-77
isCompact(e) == ~instanceofExpr(e)

\* expr.every(isCompact), keys.every(key => isCompact(expr[key]))
everyIsCompact(values) == \A i \in 1..Len(values) : isCompact(values[i])

\* keyPath.push(x), keyPath.pop()
push(m, x) == [m EXCEPT !.keyPath = Append(@, x)]
pop(m) ==
  [m EXCEPT !.keyPath = IF @ = <<>> THEN <<>> ELSE SubSeq(@, 1, Len(@) - 1)]

PathKey(key) == [key |-> key]
PathIndex(i) == [index |-> i]

(***************************************************************************)
(* Options.  Expr.js:100-104 turns undefined into {} and true into         *)
(* {compact: true}; an absent member reads as "undefined".                 *)
(***************************************************************************)
OptionsUndefined == [k |-> "undefined"]
OptionsTrue == [k |-> "true"]
OptionsObject(c, f) == [k |-> "object", compact |-> c, map |-> f]

normalize(o) ==
  IF o.k = "undefined" THEN OptionsObject("undefined", "undefined")
  ELSE IF o.k = "true" THEN OptionsObject("true", "undefined")
  ELSE o

\* keyPath.join('.') as a caller's hook would compute it
RECURSIVE PathText(_)
PathText(path) ==
  IF path = <<>> THEN ""
  ELSE LET h == Head(path)
           t == IF "key" \in DOMAIN h THEN h.key ELSE NumberToString(h.index)
       IN IF Len(path) = 1 THEN t ELSE t \o "." \o PathText(Tail(path))

\* A caller's hook (Expr.js:233 declares its type): it labels the text
\* with the path it is given.
tagHook(str, path) == "<" \o PathText(path) \o ">" \o str

\* map(str, keyPath), Expr.js:106-110: options.map, or the identity
RECURSIVE exprToString(_, _, _)

\* The module-level variables of a machine state.
shared(m) ==
  [keyPath |-> m.keyPath, compact |-> m.compact, printDepth |-> m.printDepth]

\* The tree a re-entering hook renders: [Time("now")].
Reentered == Arr(<<Value("Time(\"now\")")>>)

\* A caller's hook that starts a second Expr.toString(Reentered) while the
\* first is in flight and returns its argument: `inner` is that render,
\* made on the module-level variables as the hook finds them.
reenterHook(str, m, inner) ==
  LET m2 == [m EXCEPT !.keyPath = inner.m.keyPath,
                      !.compact = inner.m.compact,
                      !.printDepth = inner.m.printDepth,
                      !.nested = Append(@, [pre |-> shared(m),
                                            out |-> inner.out,
                                            post |-> shared(inner.m)])]
  IN IF inner.err THEN Throw(m2) ELSE Ret(str, m2)

\* map(str, keyPath) once the call is noted in the calls log
hooked(o, str, ret, m) ==
  CASE o.map = "throw" -> Throw(m)
    [] o.map = "reenter" ->
         reenterHook(str, m,
           exprToString(Reentered, OptionsUndefined,
                        [m EXCEPT !.calls = <<>>, !.nodes = <<>>]))
    [] OTHER -> Ret(ret, m)

\* map(str, keyPath), Expr.js:106-110: options.map, or the identity
map(o, str, m) ==
  LET ret == IF o.map = "tag" THEN tagHook(str, m.keyPath) ELSE str
  IN hooked(o, str, ret,
            [m EXCEPT !.calls =
               Append(@, [str |-> str, keyPath |-> m.keyPath, ret |-> ret])])

\* Object.keys(obj) and obj[key] for the values printObject is given
ownKeys(obj) ==
  CASE obj.k = "object" -> obj.keys
    [] obj.k = "Expr" -> <<"raw">>
    [] obj.k \in {"number", "boolean"} -> <<>>

prop(obj, key) == IF obj.k = "Expr" THEN obj.raw ELSE Get(obj, key)

\* The record of a composite node in the nodes log.
NodeEntry(kind, node, pre, during) ==
  [kind |-> kind, node |-> node, pre |-> pre, during |-> during]

\* The entry is completed with the node's text and the flag it leaves.
logNode(r, entry) ==
  IF r.err THEN r
  ELSE [r EXCEPT !.m.nodes =
          Append(@, [kind |-> entry.kind, node |-> entry.node,
                     pre |-> entry.pre, during |-> entry.during,
                     post |-> r.m.compact, text |-> r.out,
                     depth |-> r.m.printDepth])]

(***************************************************************************)
(* exprToString, Expr.js:79-215, with its closures printArray (112-131)    *)
(* and printObject (145-168).  toStr names the closure printArray is       *)
(* given: "exprToString" (Expr.js:138) or "printObject" (Expr.js:197).     *)
(* The state goes through the children from left to right, as              *)
(* Array.prototype.map calls its callback; r is the result of rendering a  *)
(* child, v the result of map on it.                                       *)
(***************************************************************************)
RECURSIVE printArray(_, _, _, _)
RECURSIVE printArrayItems(_, _, _, _, _)
RECURSIVE printObject(_, _, _)
RECURSIVE printObjectKeys(_, _, _, _)
RECURSIVE printArgs(_, _, _, _, _)

\* toStr(value)
toStr(name, value, o, m) ==
  IF name = "printObject" THEN printObject(value, o, m)
  ELSE exprToString(value, o, m)

\* map(<rendered child>, keyPath), unless rendering the child threw
mapped(o, r) == IF r.err THEN r ELSE map(o, r.out, r.m)

\* (compact && i === length - 1 ? '' : eol(','))
separator(i, length, m) ==
  IF m.compact /\ i = length - 1 THEN "" ELSE eol(",", m)

\* Expr.js:124-125 and 202-203: keyPath.pop(), then
\* indent(value) + (compact && i === length - 1 ? '' : eol(','))
itemText(i, length, v) ==
  IF v.err THEN v
  ELSE LET m2 == pop(v.m)
       IN Ret(indent(v.out, m2) \o separator(i, length, m2), m2)

\* Expr.js:158-162: keyPath.pop(), then
\* indent(key + ':' + (compact ? '' : ' ') + value) + (...)
fieldText(key, i, length, v) ==
  IF v.err THEN v
  ELSE LET m2 == pop(v.m)
       IN Ret(indent(key \o ":" \o (IF m2.compact THEN "" ELSE " ") \o v.out,
                     m2) \o separator(i, length, m2), m2)

\* .join('') of the texts so far with the next one
joined(acc, t) == IF t.err THEN t ELSE Ret(acc.out \o t.out, t.m)

\* the array of the texts so far with the next one
appended(acc, t) == IF t.err THEN t ELSE Ret(Append(acc.out, t.out), t.m)

\* The callback of Expr.js:121-126 on the items from index i (from 0) on.
printArrayItems(array, name, o, i, acc) ==
  IF acc.err \/ i >= Len(array.items) THEN acc
  ELSE printArrayItems(array, name, o, i + 1,
         joined(acc,
           itemText(i, Len(array.items),
             mapped(o, toStr(name, array.items[i + 1], o,
                             push(acc.m, PathIndex(i)))))))

\* open + indent(function() {...}) + indent(closer): leave, then the closer
closed(open, body, closer) ==
  IF body.err THEN body
  ELSE LET m3 == leave(body.m)
       IN Ret(open \o body.out \o indent(closer, m3), m3)

\* printArray without the early return for an empty array
printArrayAlwaysOpen(array, name, o, m) ==
  closed(eol("[", m),
         printArrayItems(array, name, o, 0, Ret("", enter(m))), "]")

printArray(array, name, o, m) ==
  IF Len(array.items) = 0 THEN Ret("[]", m)
  ELSE closed(eol("[", m),
              printArrayItems(array, name, o, 0, Ret("", enter(m))), "]")

\* The callback of Expr.js:155-163 on the keys from index i (from 0) on.
printObjectKeys(obj, o, i, acc) ==
  IF acc.err \/ i >= Len(ownKeys(obj)) THEN acc
  ELSE printObjectKeys(obj, o, i + 1,
         joined(acc,
           fieldText(ownKeys(obj)[i + 1], i, Len(ownKeys(obj)),
             mapped(o, exprToString(prop(obj, ownKeys(obj)[i + 1]), o,
                      push(acc.m, PathKey(ownKeys(obj)[i + 1])))))))

printObject(obj, o, m) ==
  IF obj.k \in {"null", "undefined"} THEN Throw(m)  \* Object.keys(null)
  ELSE IF Len(ownKeys(obj)) = 0 THEN Ret("{}", m)
  ELSE closed(eol("{", m),
              printObjectKeys(obj, o, 0, Ret("", enter(m))), "}")

\* Expr.js:195-199: how the argument under `key` is rendered
printArg(name, key, arg, o, m) ==
  IF name = "Let" /\ key = "let"
  THEN IF arg.k = "array"
       THEN printArray(arg, "printObject", o, m)
       ELSE printObject(arg, o, m)
  ELSE exprToString(arg, o, m)

\* The callback of Expr.js:191-204 on the keys from index i (from 0) on;
\* acc.out is the array of argument texts so far.
printArgs(e, name, o, i, acc) ==
  IF acc.err \/ i >= Len(e.keys) THEN acc
  ELSE printArgs(e, name, o, i + 1,
         appended(acc,
           itemText(i, Len(e.keys),
             mapped(o, printArg(name, e.keys[i + 1], e.vals[i + 1], o,
                                push(acc.m, PathKey(e.keys[i + 1])))))))

\* args left in key order
reverseSkipped(s) == s

\* args.reverse()
RECURSIVE reverse(_)
reverse(s) == IF s = <<>> THEN <<>> ELSE Append(reverse(Tail(s)), Head(s))

\* if (!wasCompact) { compact = <decision> }
decide(m, decision) == IF ~m.compact THEN [m EXCEPT !.compact = decision] ELSE m

\* compact = wasCompact; return out
restored(kind, e, wasCompact, during, r) ==
  IF r.err THEN r
  ELSE logNode(Ret(r.out, [r.m EXCEPT !.compact = wasCompact]),
               NodeEntry(kind, e, wasCompact, during))

\* The Sequence branch, Expr.js:133-143
printSequence(e, o, m) ==
  restored("Sequence", e, m.compact,
           decide(m, everyIsCompact(e.items)).compact,
           printArray(e, "exprToString", o,
                      decide(m, everyIsCompact(e.items))))

\* The ObjectLiteral branch, Expr.js:170-172: compact is not touched
unrestored(kind, e, wasCompact, r) ==
  logNode(r, NodeEntry(kind, e, wasCompact, wasCompact))

printObjectLiteral(e, o, m) ==
  unrestored("ObjectLiteral", e, m.compact, printObject(Get(e, "object"), o, m))

\* Expr.js:212: eol(fn + '(') + args.join('') + indent(')'), after leave
callText(name, body) ==
  IF body.err THEN body
  ELSE LET m3 == leave(body.m)
           args == IF shouldReverseArgs(name) THEN reverse(body.out)
                   ELSE body.out
       IN Ret(eol(name \o "(", m3) \o join(args) \o indent(")", m3), m3)

\* options.compact || keys.every(key => isCompact(expr[key]))
callCompact(e, o) == o.compact = "true" \/ everyIsCompact(e.vals)

\* The Call branch, Expr.js:174-214
printCall(e, o, m) ==
  IF Len(e.keys) = 0 THEN Throw(m)  \* keys[0] is undefined: undefined.split
  ELSE restored("Call", e, m.compact, decide(m, callCompact(e, o)).compact,
         callText(fn(e.keys[1]),
           printArgs(e, fn(e.keys[1]), o, 0,
                     Ret(<<>>, enter(decide(m, callCompact(e, o)))))))

\* Expr.js:91-98 and 133-214, for expr not an Expr instance and not null
printValue(e, o, m) ==
  CASE e.k = "null" -> Ret("null", m)
    [] e.k = "undefined" -> Ret("undefined", m)
    [] e.k = "string" -> Ret(JSONstringify(e.str), m)
    [] e.k = "boolean" -> Ret(IF e.bool THEN "true" ELSE "false", m)
    [] e.k = "number" -> Ret(NumberToString(e.num), m)
    [] e.k = "array" -> printSequence(e, o, m)
    [] e.k = "object" /\ In("object", e) -> printObjectLiteral(e, o, m)
    [] e.k = "object" /\ ~In("object", e) -> printCall(e, o, m)

exprToString(e, o, m) ==
  IF e.k = "Value" THEN Ret(e.text, m)  \* 'value' in expr: expr.toString()
  ELSE printValue(IF e.k = "Expr" THEN e.raw ELSE e, normalize(o), m)

(***************************************************************************)
(* The expression trees and options the calls are made with.               *)
(***************************************************************************)
Leaves == {Num(1), Str("q\"\n"), Value("Time(\"now\")")}

\* The values rendered at the root only.
Scalars ==
  Leaves \cup {Null, Bool(TRUE), Undefined, Expr(Num(1)), Expr(Null)}

\* j further simple values: 2, 3, ...
Siblings(j) == [i \in 1..j |-> Num(i + 1)]

\* Field names f1, f2, ...
Fields(j) == [i \in 1..j |-> "f" \o NumberToString(i)]

\* The key lists of the calls built around a child.
Schemas ==
  {<<"add">>, <<"map", "collection">>, <<"select", "from", "default">>}

ObjectLiteral(obj) == Obj(<<"object">>, <<obj>>)

\* The composites with first child c.
Around(c) ==
  LET plain ==
        {Arr(<<c>> \o Siblings(j)) : j \in 0..(MaxLen - 1)}
        \cup {ObjectLiteral(Obj(Fields(j + 1), <<c>> \o Siblings(j))) :
                j \in 0..(MaxLen - 1)}
        \cup {Obj(keys, <<c>> \o Siblings(Len(keys) - 1)) : keys \in Schemas}
        \cup {Obj(<<"let", "in">>, <<Obj(<<"x">>, <<c>>), Num(2)>>),
              Obj(<<"let", "in">>, <<Arr(<<Obj(<<"x">>, <<c>>)>>), Num(2)>>)}
  IN plain \cup {Expr(t) : t \in plain}

Empties ==
  {Arr(<<>>), ObjectLiteral(Obj(<<>>, <<>>)),
   Expr(Arr(<<>>)), Expr(ObjectLiteral(Obj(<<>>, <<>>)))}

\* Let calls that bind nothing.
EmptyLets ==
  {Obj(<<"let", "in">>, <<b, x>>) :
     b \in {Arr(<<>>), Obj(<<>>, <<>>)}, x \in {Num(2), Expr(Num(2))}}

Level1 == Empties \cup EmptyLets \cup UNION {Around(c) : c \in Leaves}

\* One more level around a composite.
Nest(c) ==
  {Arr(<<c, Num(2)>>),
   Expr(ObjectLiteral(Obj(<<"x">>, <<c>>))),
   Expr(Obj(<<"add">>, <<c>>)),
   Obj(<<"map", "collection">>, <<c, Num(2)>>)}

RECURSIVE Level(_)
Level(d) ==
  IF d <= 1 THEN Level1 ELSE UNION {Nest(c) : c \in Level(d - 1)}

\* Calls that differ in their operation key only.
NameKeys ==
  {"is_nonempty", "lt", "lte", "gt", "gte", "select_all", "filter",
   "foreach", "let", "a__b", "_x", "x_", "x1_y", "", "constructor",
   "toString"}

NameCalls == {Obj(<<key>>, <<Num(1)>>) : key \in NameKeys}

\* Records with no own key, alone and inside calls.
Malformed ==
  {Obj(<<>>, <<>>),
   Obj(<<"add">>, <<Obj(<<>>, <<>>)>>),
   Expr(Obj(<<"add">>, <<Expr(Obj(<<>>, <<>>))>>)),
   Expr(Obj(<<"add">>, <<Expr(Arr(<<Obj(<<>>, <<>>)>>))>>))}

\* An expanded sequence next to a compact one: [[Time("now")], [1, 2]].
Mixed ==
  {Expr(Arr(<<Expr(Arr(<<Value("Time(\"now\")")>>)),
             Arr(<<Num(1), Num(2)>>)>>))}

Exprs ==
  Scalars \cup UNION {Level(d) : d \in 1..MaxDepth} \cup NameCalls
  \cup Malformed \cup Mixed

OptionsSet ==
  {OptionsUndefined, OptionsTrue, OptionsObject("undefined", "tag"),
   OptionsObject("true", "tag")}

\* The hooks that do more than compute a text: one throws when it is
\* called, one calls Expr.toString itself.
HookOptions ==
  {OptionsObject("undefined", "throw"), OptionsObject("undefined", "reenter")}

\* The trees rendered with those hooks: a compact sequence, an expanded
\* one, and an expanded call over a compact sequence.
HookedExprs ==
  {Arr(<<Num(1)>>),
   Expr(Arr(<<Value("Time(\"now\")")>>)),
   Obj(<<"add">>, <<Expr(Arr(<<Num(1)>>))>>)}

\* The argument lists of the calls made.
Inputs == (Exprs \X OptionsSet) \cup (HookedExprs \X HookOptions)

(***************************************************************************)
(* The state machine: calls of Expr.toString, one at a time.               *)
(***************************************************************************)
NoCall == [status |-> "none", out |-> ""]

Init ==
  /\ keyPath = <<>>
  /\ compact = FALSE
  /\ printDepth = 0
  /\ expr = Undefined
  /\ options = OptionsUndefined
  /\ status = "idle"
  /\ out = ""
  /\ was = [keyPath |-> <<>>, compact |-> FALSE, printDepth |-> 0]
  /\ calls = <<>>
  /\ nodes = <<>>
  /\ again = NoCall
  /\ nested = <<>>
  /\ n = 0

\* Expr.toString(e, o), Expr.js:217, from the current module-level state
Run(e, o) ==
  LET r == exprToString(e, o, [keyPath |-> keyPath, compact |-> compact,
                               printDepth |-> printDepth,
                               calls |-> <<>>, nodes |-> <<>>,
                               nested |-> <<>>])
  IN /\ expr' = e
     /\ options' = o
     /\ was' = [keyPath |-> keyPath, compact |-> compact,
                printDepth |-> printDepth]
     /\ keyPath' = r.m.keyPath
     /\ compact' = r.m.compact
     /\ printDepth' = r.m.printDepth
     /\ status' = IF r.err THEN "threw" ELSE "returned"
     /\ out' = r.out
     /\ calls' = r.m.calls
     /\ nodes' = r.m.nodes
     /\ nested' = r.m.nested
     /\ n' = n + 1

\* A caller renders a tree.
Expr_toString ==
  /\ status = "idle"
  /\ n < MaxCalls
  /\ \E io \in Inputs : Run(io[1], io[2])
  /\ again' = NoCall

\* The caller renders the same tree with the same options once more.
Expr_toStringAgain ==
  /\ status # "idle"
  /\ n < MaxCalls
  /\ Run(expr, options)
  /\ again' = [status |-> status, out |-> out]

\* The caller is done with the result; the module-level state stays.
Discard ==
  /\ status # "idle"
  /\ status' = "idle"
  /\ expr' = Undefined
  /\ options' = OptionsUndefined
  /\ out' = ""
  /\ was' = [keyPath |-> keyPath, compact |-> compact,
             printDepth |-> printDepth]
  /\ calls' = <<>>
  /\ nodes' = <<>>
  /\ nested' = <<>>
  /\ again' = NoCall
  /\ UNCHANGED <<keyPath, compact, printDepth, n>>

Next == Expr_toString \/ Expr_toStringAgain \/ Discard

Spec == Init /\ [][Next]_vars

(***************************************************************************)
(* Properties.                                                             *)
(***************************************************************************)
Returned == status = "returned"

Current == [keyPath |-> keyPath, compact |-> compact, printDepth |-> printDepth]

Pristine == [keyPath |-> <<>>, compact |-> FALSE, printDepth |-> 0]

\* sub occurs in s
Contains(s, sub) ==
  \E i \in 1..(Len(s) - Len(sub) + 1) : SubSeq(s, i, i + Len(sub) - 1) = sub

\* s begins with pre
StartsWith(s, pre) == Len(pre) <= Len(s) /\ SubSeq(s, 1, Len(pre)) = pre

\* an occurrence of a ends before an occurrence of b begins
Before(s, a, b) ==
  \E i \in 1..(Len(s) - Len(a) + 1) :
    /\ SubSeq(s, i, i + Len(a) - 1) = a
    /\ \E j \in (i + Len(a))..(Len(s) - Len(b) + 1) :
         SubSeq(s, j, j + Len(b) - 1) = b

\* The root node of the call last made, unwrapped.
Root == IF expr.k = "Expr" THEN expr.raw ELSE expr

IsSequence(x) == x.k = "array"
IsObjectLiteral(x) == x.k = "object" /\ In("object", x)
IsCall(x) == x.k = "object" /\ ~In("object", x)

\* The map invocations for the root's own children, in the order made.
Kids == SelectSeq(calls, LAMBDA c : Len(c.keyPath) = Len(was.keyPath) + 1)

CompactOption == normalize(options).compact = "true"

\* C1: a call of Expr.toString that returns normally leaves keyPath,
\* compact and printDepth as they were when it was entered, and rendering
\* the same tree with the same options again then returns the same string.
C1_StateLeftAsFound ==
  Returned =>
    /\ Current = was
    /\ again.status = "returned" => out = again.out

\* A second render of a nested tree, through the hook, part of it expanded
\* and part of it compact.
C1_Witness ==
  /\ Returned
  /\ again.status = "returned"
  /\ normalize(options).map = "tag"
  /\ \E i \in 1..Len(calls) : Len(calls[i].keyPath) >= 2
  /\ \E i \in 1..Len(nodes) : nodes[i].during # nodes[i].pre
  /\ Contains(out, "\n")

\* C2: with the compact option set, the returned string has no line break
\* and no indentation marker, whatever the root node is.
C2_CompactOptionSingleLine ==
  (Returned /\ CompactOption /\ was = Pristine) =>
    ~Contains(out, "\n") /\ ~Contains(out, Glyph)

\* C6: Expr.toString raises no error.
C6_NeverThrows == status # "threw"

\* The texts map returned for the root's children, in the order they have
\* in the output.
KidTexts ==
  LET inOrder == [i \in 1..Len(Kids) |-> Kids[i].ret]
  IN IF IsCall(Root) /\ Len(Root.keys) > 0
        /\ shouldReverseArgs(fn(Root.keys[1]))
     THEN reverse(inOrder)
     ELSE inOrder

\* s without its last character and without the layout that ends it then
RECURSIVE DropLayout(_)
DropLayout(s) ==
  IF s # "" /\ SubSeq(s, Len(s), Len(s)) \in {" ", Glyph, "\n"}
  THEN DropLayout(SubSeq(s, 1, Len(s) - 1))
  ELSE s

CommaBeforeCloser(s) ==
  LET body == DropLayout(SubSeq(s, 1, Len(s) - 1))
  IN body # "" /\ SubSeq(body, Len(body), Len(body)) = ","

\* C3: in the text of a Call, a non-empty Sequence or an ObjectLiteral a
\* comma follows every rendered child but the last, and none follows the
\* last one, in compact and in expanded mode and for reversed arguments.
C3_CommaBetweenNotAfter ==
  (Returned /\ Len(Kids) > 0) =>
    /\ \A i \in 1..(Len(KidTexts) - 1) : Contains(out, KidTexts[i] \o ",")
    /\ ~CommaBeforeCloser(out)

\* C4: the arguments of a Call whose display name is Filter, Map or
\* Foreach appear in the reverse of key insertion order (for keys a then b,
\* b's text before a's); those of every other Call in key insertion order.
C4_ArgumentOrder ==
  (Returned /\ IsCall(Root)) =>
    \A i, j \in 1..Len(Kids) :
      i < j =>
        IF fn(Root.keys[1]) \in {"Filter", "Map", "Foreach"}
        THEN Before(out, Kids[j].ret, Kids[i].ret)
        ELSE Before(out, Kids[i].ret, Kids[j].ret)

\* A Map call with two keys whose texts differ, and in another state a
\* select call with three.
C4_Witness ==
  /\ Returned
  /\ IsCall(Root)
  /\ Root.keys = <<"map", "collection">>
  /\ Len(Kids) = 2
  /\ Kids[1].ret # Kids[2].ret
  /\ ~Contains(Kids[1].ret, Kids[2].ret)
  /\ Before(out, Kids[2].ret, Kids[1].ret)

Add12 == Obj(<<"add">>, <<Arr(<<Num(1), Num(2)>>)>>)

\* C5: the Call {add: [1, 2]} renders as Add(1,2) in compact mode and, in
\* expanded mode, as Add( / indented 1, / indented 2 / ) on four lines.
C5_AddScenario ==
  (Returned /\ Root = Add12 /\ was = Pristine
   /\ normalize(options).map = "undefined") =>
    \/ out = "Add(1,2)"
    \/ ~CompactOption /\ out = "Add(\n" \o Marker(0, 2) \o "1,\n"
                                \o Marker(0, 2) \o "2\n)"

\* The display names the resolution rule gives the operation keys.
DisplayName ==
  [is_nonempty |-> "IsNonEmpty", lt |-> "LT", lte |-> "LTE", gt |-> "GT",
   gte |-> "GTE", select_all |-> "SelectAll", filter |-> "Filter",
   foreach |-> "Foreach", let |-> "Let", a__b |-> "AB", _x |-> "X",
   x_ |-> "X", x1_y |-> "X1Y", constructor |-> "Constructor",
   toString |-> "ToString", add |-> "Add", map |-> "Map",
   select |-> "Select"]

\* C7: the display name of a Call comes from its first key: the override
\* for is_nonempty, lt, lte, gt, gte; for every other key its segments
\* between underscores, each with its first character in upper case,
\* concatenated.
C7_DisplayName ==
  (Returned /\ IsCall(Root) /\ Root.keys[1] \in DOMAIN DisplayName) =>
    StartsWith(out, DisplayName[Root.keys[1]] \o "(")

\* x without its Expr wrapper
Raw(x) == IF x.k = "Expr" THEN x.raw ELSE x

\* The keys and values under which a composite holds its children.
Record(x) == IF IsObjectLiteral(x) THEN Get(x, "object") ELSE x
ChildCount(x) ==
  CASE x.k = "array" -> Len(x.items)
    [] x.k = "object" -> Len(Record(x).keys)
    [] OTHER -> 0
ChildKey(x, i) ==
  IF x.k = "array" THEN PathIndex(i - 1) ELSE PathKey(Record(x).keys[i])
Child(x, i) == IF x.k = "array" THEN x.items[i] ELSE Record(x).vals[i]

\* The paths from the tree's root to every child in it, each child after
\* the children below it, siblings from first to last.
RECURSIVE ChildPaths(_, _)
RECURSIVE ChildPathsFrom(_, _, _)
ChildPathsFrom(x, prefix, i) ==
  IF i > ChildCount(x) THEN <<>>
  ELSE ChildPaths(Child(x, i), Append(prefix, ChildKey(x, i)))
       \o <<Append(prefix, ChildKey(x, i))>>
       \o ChildPathsFrom(x, prefix, i + 1)
ChildPaths(x, prefix) == ChildPathsFrom(Raw(x), prefix, 1)

\* The node a path from the root leads to.
RECURSIVE At(_, _)
At(x, path) ==
  IF path = <<>> THEN x
  ELSE LET kid == CHOOSE i \in 1..ChildCount(Raw(x)) :
                    ChildKey(Raw(x), i) = Head(path)
       IN At(Child(Raw(x), kid), Tail(path))

\* C8: every child is rendered between a push of its key or index and a
\* pop, map is called once for it with the path from the tree's root to
\* it, the text map returns is the text used, and the path is empty when
\* the top-level render returns.
C8_KeyPathTracksTree ==
  Returned =>
    /\ [i \in 1..Len(calls) |-> calls[i].keyPath] = ChildPaths(expr, <<>>)
    /\ \A i \in 1..Len(calls) : Contains(out, calls[i].ret)
    /\ keyPath = <<>>

\* The same, for a render entered with the module-level state as
\* initialised (Expr.js:50-52).
KeyPathTracksTreeFromPristine == was = Pristine => C8_KeyPathTracksTree

IsEmptySequence(x) == Raw(x).k = "array" /\ Len(Raw(x).items) = 0
IsEmptyObjectLiteral(x) ==
  IsObjectLiteral(Raw(x)) /\ ChildCount(Raw(x)) = 0

\* The part of a logged path below the root of the call.
Below(path) == SubSeq(path, Len(was.keyPath) + 1, Len(path))

\* C9: an empty Sequence renders as [] and an ObjectLiteral with an empty
\* record as {}, at the root and at every nesting position, in compact and
\* in expanded mode.
C9_EmptyDelimitersOnly ==
  Returned =>
    /\ IsEmptySequence(expr) => out = "[]"
    /\ IsEmptyObjectLiteral(expr) => out = "{}"
    /\ \A i \in 1..Len(calls) :
         /\ IsEmptySequence(At(expr, Below(calls[i].keyPath)))
              => calls[i].str = "[]"
         /\ IsEmptyObjectLiteral(At(expr, Below(calls[i].keyPath)))
              => calls[i].str = "{}"

\* An empty sequence two levels down in a tree rendered expanded.
C9_Witness ==
  /\ Returned
  /\ \E i \in 1..Len(calls) :
       /\ Len(Below(calls[i].keyPath)) >= 2
       /\ IsEmptySequence(At(expr, Below(calls[i].keyPath)))
       /\ calls[i].str = "[]"
  /\ Contains(out, "\n")

IsLeafScalar(x) == Raw(x).k \notin {"array", "object"}

AllChildren(x, P(_)) == \A i \in 1..ChildCount(x) : P(Child(x, i))

NotExprInstance(x) == x.k \notin {"Expr", "Value"}

C11_RestoredOnEveryExit ==
  /\ status # "idle" => Current = was
  /\ was = Pristine

\* The render was aborted by the hook.
AbortedByHook == status = "threw" /\ normalize(options).map = "throw"

\* The render was aborted by a record without keys below the root.
AbortedByNameResolution ==
  /\ status = "threw"
  /\ normalize(options).map # "throw"
  /\ Raw(expr) # Obj(<<>>, <<>>)

\* C11 for the hook alone
RestoredWhenHookThrows == AbortedByHook => Current = was

\* C11 for the failing name resolution alone
RestoredWhenNameResolutionFails == AbortedByNameResolution => Current = was

\* The render of e with options o on its own, from the module as loaded.
Isolated(e, o) ==
  exprToString(e, o, [keyPath |-> <<>>, compact |-> FALSE, printDepth |-> 0,
                      calls |-> <<>>, nodes |-> <<>>, nested |-> <<>>])

\* C12, the single render: a render during which no other render is
\* started returns what the same call returns on its own and leaves the
\* state such a call leaves.
C12_SingleRenderAsIsolated ==
  (Returned /\ nested = <<>>) =>
    /\ out = Isolated(expr, options).out
    /\ Current = Pristine

\* C12, the single render, for calls entered with the state as loaded
SingleRenderFromPristineAsIsolated ==
  was = Pristine => C12_SingleRenderAsIsolated

\* C12, the shared state: no render started from inside a hook of a
\* render in flight returns anything but what it returns on its own.
\* (The claim says this is violated.)
NestedRenderAsIsolated ==
  (Returned /\ was = Pristine) =>
    \A i \in 1..Len(nested) :
      nested[i].out = Isolated(Reentered, OptionsUndefined).out

\* The prefix of depth d, written out: d times the glyph and a blank.
RECURSIVE Prefix(_)
Prefix(d) == IF d = 0 THEN "" ELSE Glyph \o " " \o Prefix(d - 1)

\* The positions in s at which a line begins.
LineStarts(s) ==
  {1} \cup {i + 1 : i \in {j \in 1..Len(s) : SubSeq(s, j, j) = "\n"}}

\* pre stands in s at position i
StartsAt(s, i, pre) == SubSeq(s, i, i + Len(pre) - 1) = pre

LastLine(s) ==
  SubSeq(s, CHOOSE i \in LineStarts(s) : \A j \in LineStarts(s) : j <= i,
         Len(s))

Closer(kind) ==
  CASE kind = "Sequence" -> "]"
    [] kind = "ObjectLiteral" -> "}"
    [] kind = "Call" -> ")"

\* The text of an expanded composite rendered at depth d: the opener ends
\* the first line, the first child begins the second with exactly the
\* prefix of depth d + 1, every line of the children begins with that
\* prefix, and the last line is the closer under the prefix of depth d.
ExpandedLayout(e) ==
  /\ Len(e.text) > 0
  /\ Cardinality(LineStarts(e.text)) >= 3
  /\ LastLine(e.text) = Prefix(e.depth) \o Closer(e.kind)
  /\ \A i \in LineStarts(e.text) :
       (i # 1 /\ i + Len(LastLine(e.text)) # Len(e.text) + 1) =>
         StartsAt(e.text, i, Prefix(e.depth + 1))
  /\ LET first == CHOOSE i \in LineStarts(e.text) \ {1} :
                    \A j \in LineStarts(e.text) \ {1} : i <= j
     IN /\ StartsAt(e.text, first, Prefix(e.depth + 1))
        /\ ~StartsAt(e.text, first, Prefix(e.depth + 1) \o Glyph)
        /\ SubSeq(e.text, first - 2, first - 2) \in {"[", "{", "("}

\* The text of a compact composite: one line, no prefix anywhere.
CompactLayout(e) == ~Contains(e.text, "\n") /\ ~Contains(e.text, Glyph)

\* C13: in expanded mode the prefix at depth d is d times glyph, blank
\* (length 2 * d), the children of a composite rendered at depth d are
\* under the prefix of depth d + 1 and its closing delimiter under the
\* prefix of depth d; in compact mode the prefix is empty and eol adds no
\* line break.  The depth is the renderer's depth counter.
C13_IndentationByDepth ==
  /\ Len(Prefix(printDepth)) = 2 * printDepth
  /\ indent("x", shared(Current)) =
       (IF compact THEN "x" ELSE Prefix(printDepth) \o "x")
  /\ eol("x", shared(Current)) = (IF compact THEN "x" ELSE "x\n")
  /\ Returned =>
       \A i \in 1..Len(nodes) :
         ChildCount(nodes[i].node) > 0 =>
           IF nodes[i].during THEN CompactLayout(nodes[i])
           ELSE ExpandedLayout(nodes[i])

\* An expanded composite inside an expanded composite, and a compact one.
C13_Witness ==
  /\ Returned
  /\ was = Pristine
  /\ \E i \in 1..Len(nodes) :
       /\ ~nodes[i].during
       /\ nodes[i].depth >= 1
       /\ ChildCount(nodes[i].node) >= 1
  /\ \E i \in 1..Len(nodes) :
       nodes[i].during /\ ChildCount(nodes[i].node) > 1
====
